---- MODULE Spec2Model ----
(***************************************************************************)
(* Model of Pydu (src/Pydu/pydu.py): the live disk-usage scanner           *)
(* (pre_count, scan_live, the worker pool running file_size, the bubble    *)
(* of sizes to the ancestors) and the Browser that reads the shared State. *)
(*                                                                         *)
(* A path is the tuple of its components below the filesystem root "/":    *)
(* "/" is <<>>, "/data/A" is <<"data", "A">>.                              *)
(***************************************************************************)
EXTENDS Integers, Sequences, FiniteSets, TLC

VARIABLES
    tree, unreadable, nolist, late,      \* the filesystem the scan meets
    size, exists, children, is_dir,      \* State: the path tables
    total_files, seen_files, total_dirs, seen_dirs, scanning, errors,
    lock,                                \* State.lock: "free" or its holder
    pc, di, ci,                          \* scanner thread: position in scan_live
    futs, task, result,                  \* the pool: futures in submit order
    fut, ancs,                           \* the completion being bubbled
    cwd, pos, sort_mode, quit,           \* Browser
    dpc, draw_kids, shot, parent_total, top, rows,   \* one frame of draw
    arg, unit, ret                       \* one call of human

fsvars == <<tree, unreadable, nolist, late>>
stvars == <<size, exists, children, is_dir, total_files, seen_files,
            total_dirs, seen_dirs, scanning, errors>>
scvars == <<pc, di, ci, fut, ancs>>
plvars == <<futs, task, result>>
brvars == <<cwd, pos, sort_mode, quit>>
scrvars == <<draw_kids, shot, parent_total, top, rows>>
frvars == <<dpc, scrvars>>
hmvars == <<arg, unit, ret>>
vars == <<fsvars, stvars, lock, scvars, plvars, brvars, frvars, hmvars>>

(***************************************************************************)
(* Bounds of the model.                                                    *)
(***************************************************************************)
MaxWorkers == 2       \* threads of the pool (os.cpu_count() on the host)
MaxUnreadable == 1    \* files whose os.path.getsize raises
MaxUnlistable == 1    \* directories os.walk cannot list
MaxLate == 2          \* files created between the two walks
MaxPos == 2           \* cap on the selection index (KEY_DOWN is unbounded)
MaxExp == 7           \* human: byte counts below 1024^(MaxExp+1)
ScreenLines == 8      \* draw: h of scr.getmaxyx()

(***************************************************************************)
(* Paths (os.path on absolute, normalised POSIX paths).                    *)
(***************************************************************************)
dirname(p) == IF p = <<>> THEN <<>> ELSE SubSeq(p, 1, Len(p) - 1)

basename(p) == IF p = <<>> THEN "" ELSE p[Len(p)]

join(d, n) == Append(d, n)

(***************************************************************************)
(* dict / defaultdict helpers: a dict is a function on its set of keys.    *)
(***************************************************************************)
Put(f, k, v) == [x \in (DOMAIN f) \cup {k} |-> IF x = k THEN v ELSE f[x]]

Get(f, k, dflt) == IF k \in DOMAIN f THEN f[k] ELSE dflt

SetDefault(f, k, v) == IF k \in DOMAIN f THEN f ELSE Put(f, k, v)

Range(s) == {s[i] : i \in 1..Len(s)}

(***************************************************************************)
(* The trees scanned.  dirs[d] and files[d] are the names os.walk lists in *)
(* directory d, in listing order; bytes[f] is what getsize(f) returns.     *)
(***************************************************************************)
SpecTree ==
    [root  |-> <<"data">>,
     dirs  |-> (<<"data">> :> <<"A">>) @@ (<<"data", "A">> :> <<>>),
     files |-> (<<"data">> :> <<"r">>) @@ (<<"data", "A">> :> <<"a1", "a2", "a3">>),
     bytes |-> (<<"data", "r">> :> 400) @@ (<<"data", "A", "a1">> :> 100)
               @@ (<<"data", "A", "a2">> :> 200) @@ (<<"data", "A", "a3">> :> 300)]

DeepTree ==
    [root  |-> <<>>,
     dirs  |-> (<<>> :> <<"B", "a">>) @@ (<<"B">> :> <<"c">>)
               @@ (<<"B", "c">> :> <<>>) @@ (<<"a">> :> <<>>),
     files |-> (<<>> :> <<>>) @@ (<<"B">> :> <<"y">>)
               @@ (<<"B", "c">> :> <<"x">>) @@ (<<"a">> :> <<"z">>),
     bytes |-> (<<"B", "y">> :> 7) @@ (<<"B", "c", "x">> :> 5) @@ (<<"a", "z">> :> 12)]

PairTree ==
    [root  |-> <<"data">>,
     dirs  |-> (<<"data">> :> <<"A">>) @@ (<<"data", "A">> :> <<>>),
     files |-> (<<"data">> :> <<"r">>) @@ (<<"data", "A">> :> <<"a1">>),
     bytes |-> (<<"data", "r">> :> 400) @@ (<<"data", "A", "a1">> :> 100)]

\* two directories whose order by size changes during the drain, and a file
FlipTree ==
    [root  |-> <<"data">>,
     dirs  |-> (<<"data">> :> <<"A", "B">>) @@ (<<"data", "A">> :> <<>>)
               @@ (<<"data", "B">> :> <<>>),
     files |-> (<<"data">> :> <<"r">>) @@ (<<"data", "A">> :> <<"a1">>)
               @@ (<<"data", "B">> :> <<"y">>),
     bytes |-> (<<"data", "r">> :> 400) @@ (<<"data", "A", "a1">> :> 100)
               @@ (<<"data", "B", "y">> :> 700)]

Trees == {SpecTree, DeepTree}

DirsOf(t) == DOMAIN t.dirs

FilesOf(t) == DOMAIN t.bytes

\* os.walk(root, topdown=True, followlinks=False): the directories it yields,
\* in order.  A directory that cannot be listed is skipped silently
\* (onerror is None), with everything below it.
RECURSIVE walk(_, _, _)
walk(t, bad, stack) ==
    IF stack = <<>> THEN <<>>
    ELSE LET cur == Head(stack)
             sub == [i \in 1..Len(t.dirs[cur]) |-> join(cur, t.dirs[cur][i])]
         IN  IF cur \in bad THEN walk(t, bad, Tail(stack))
             ELSE <<cur>> \o walk(t, bad, sub \o Tail(stack))

Walk == walk(tree, nolist, <<tree.root>>)

dirpath == Walk[di]

dirnames == tree.dirs[dirpath]

\* (the pre-count pass counts no file)
pre_filenames_none == <<>>

\* filenames as the pre-count walk lists them, and as the live walk does
pre_filenames == SelectSeq(tree.files[dirpath], LAMBDA n : join(dirpath, n) \notin late)

filenames == tree.files[dirpath]

(***************************************************************************)
(* human(n), lines 21-30.  A byte count is the sequence of its digits in   *)
(* base 1024, lowest first: <<512, 1>> is 1536.  float(n) and the          *)
(* divisions by 1024.0 are exact for the counts used (at most              *)
(* MantissaDigits digits from the highest to the lowest non-zero one), so  *)
(* the float n of the loop is arg / 1024^unit.  The returned string        *)
(* "I.dU" is the triple <<I, d, U>>.                                       *)
(***************************************************************************)
Base == 1024

\* digits of base 1024 that fit the 53-bit mantissa of a float
MantissaDigits == 5

units == <<"B", "K", "M", "G", "T", "P">>

\* the count with digit t at 1024^k, x at 1024^(k-1) and y below
Num(k, t, x, y) ==
    [i \in 1..(k + 1) |-> IF i = k + 1 THEN t ELSE IF i = k THEN x ELSE y]

\* the byte counts human is called with: 0, the powers of 1024, the counts
\* just below them, halves, quarters and counts near the next power
Inputs ==
    {<<0>>, <<1>>, <<2>>, <<Base - 1>>}
    \cup {Num(k, t, x, y) : k \in 1..MaxExp, t \in {1, 2, Base - 1},
                             x \in {0, Base \div 4, Base \div 2, Base - 1},
                             y \in {0}}
    \cup {Num(k, t, x, y) : k \in 1..(MantissaDigits - 1), t \in {1, 2, Base - 1},
                             x \in {0, Base \div 4, Base \div 2, Base - 1},
                             y \in {Base - 1}}

\* (line 27 with <= for <)
at_most_1024(ds, u) ==
    \/ \A i \in (u + 2)..Len(ds) : ds[i] = 0
    \/ /\ Len(ds) = u + 2 /\ ds[u + 2] = 1
       /\ \A i \in 1..(u + 1) : ds[i] = 0

\* line 27: n < 1024 after u divisions
below_1024(ds, u) == \A i \in (u + 2)..Len(ds) : ds[i] = 0

\* the integer part of ds / 1024^(i-1)
RECURSIVE IntFrom(_, _)
IntFrom(ds, i) == IF i > Len(ds) THEN 0 ELSE ds[i] + Base * IntFrom(ds, i + 1)

\* ten times a fraction given by its base-1024 digits, lowest first:
\* <<digits of the fractional part of the product, its integer part>>
RECURSIVE Mul10(_, _)
Mul10(fr, carry) ==
    IF fr = <<>> THEN <<<<>>, carry>>
    ELSE LET v    == 10 * Head(fr) + carry
             rest == Mul10(Tail(fr), v \div Base)
         IN  <<<<v % Base>> \o rest[1], rest[2]>>

\* f"{n:.1f}" for n = ds / 1024^u: the decimal expansion correctly rounded
\* to one digit, a tie going to the even digit
format_1f(ds, u) ==
    LET int  == IntFrom(ds, u + 1)
        m    == Mul10(SubSeq(ds, 1, u), 0)
        dec  == m[2]
        rem  == m[1]
        low0 == \A i \in 1..(Len(rem) - 1) : rem[i] = 0
        up   == /\ rem # <<>>
                /\ \/ rem[Len(rem)] > Base \div 2
                   \/ rem[Len(rem)] = Base \div 2 /\ (~low0 \/ dec % 2 = 1)
    IN  IF ~up THEN <<int, dec>>
        ELSE IF dec = 9 THEN <<int + 1, 0>>
        ELSE <<int, dec + 1>>

\* lines 26-27 and 29: the test fails, n /= 1024.0 and the next unit
human_next_unit ==
    /\ ret = <<>>
    /\ unit < Len(units)
    /\ ~below_1024(arg, unit)
    /\ unit' = unit + 1
    /\ UNCHANGED <<fsvars, stvars, lock, scvars, plvars, brvars, frvars, arg, ret>>

\* lines 26-28
human_return ==
    /\ ret = <<>>
    /\ unit < Len(units)
    /\ below_1024(arg, unit)
    /\ ret' = format_1f(arg, unit) \o <<units[unit + 1]>>
    /\ UNCHANGED <<fsvars, stvars, lock, scvars, plvars, brvars, frvars, arg, unit>>

\* line 30
human_exa ==
    /\ ret = <<>>
    /\ unit = Len(units)
    /\ ret' = format_1f(arg, unit) \o <<"E">>
    /\ UNCHANGED <<fsvars, stvars, lock, scvars, plvars, brvars, frvars, arg, unit>>

human == human_next_unit \/ human_return \/ human_exa

(***************************************************************************)
(* ancestors(path, stop_at), lines 32-42.                                  *)
(***************************************************************************)
\* (an exclusive stop: the chain ends before stop_at)
RECURSIVE ancestors_stop_short(_, _)
ancestors_stop_short(p, stop_at) ==
    IF p = stop_at \/ p = dirname(p) \/ dirname(p) = stop_at THEN <<p>>
    ELSE <<p>> \o ancestors_stop_short(dirname(p), stop_at)

RECURSIVE ancestors(_, _)
ancestors(p, stop_at) ==
    IF p = stop_at \/ p = dirname(p) THEN <<p>>
    ELSE <<p>> \o ancestors(dirname(p), stop_at)

(***************************************************************************)
(* State.__init__ and Browser.__init__; the scanner thread is started.     *)
(***************************************************************************)
Start ==
    /\ unreadable \in {s \in SUBSET FilesOf(tree) : Cardinality(s) <= MaxUnreadable}
    /\ nolist \in {s \in SUBSET DirsOf(tree) : Cardinality(s) <= MaxUnlistable}
    /\ size = <<>>
    /\ exists = {}
    /\ children = <<>>
    /\ is_dir = <<>>
    /\ total_files = 1
    /\ seen_files = 0
    /\ total_dirs = 1
    /\ seen_dirs = 0
    /\ scanning = TRUE
    /\ errors = 0
    /\ lock = "free"
    /\ pc = IF walk(tree, nolist, <<tree.root>>) = <<>> THEN "finish" ELSE "pre_dir"
    /\ di = 1
    /\ ci = 1
    /\ futs = <<>>
    /\ task = <<>>
    /\ result = <<>>
    /\ fut = <<>>
    /\ ancs = <<>>
    /\ cwd = tree.root
    /\ pos = 0
    /\ sort_mode = 0
    /\ quit = FALSE
    /\ dpc = "idle"
    /\ draw_kids = <<>>
    /\ shot = <<>>
    /\ parent_total = 0
    /\ top = 0
    /\ rows = <<>>

\* human is not being called
NoCall == arg = <<0>> /\ unit = 0 /\ ret = <<>>

\* the tree is the same in both walks
Init == tree \in Trees /\ Start /\ late = {} /\ NoCall

\* the same on the smallest tree that has a file below a subdirectory
InitPair == tree = PairTree /\ Start /\ late = {} /\ NoCall

\* files may be created between the pre-count walk and the live walk
InitChanging ==
    /\ tree \in Trees
    /\ Start
    /\ late \in {s \in SUBSET FilesOf(tree) : Cardinality(s) <= MaxLate}
    /\ unreadable = {}
    /\ nolist = {}
    /\ NoCall

(***************************************************************************)
(* pre_count, lines 71-86.  One action per `with st.lock` block.           *)
(***************************************************************************)
\* lines 74-78
pre_count_dir ==
    /\ ~quit /\ pc = "pre_dir" /\ lock = "free"
    /\ exists' = exists \cup {dirpath}
    /\ is_dir' = Put(is_dir, dirpath, TRUE)
    /\ children' = SetDefault(children, dirpath, <<>>)
    /\ total_dirs' = total_dirs + 1
    /\ pc' = IF dirnames # <<>> THEN "pre_sub" ELSE "pre_files"
    /\ ci' = 1
    /\ UNCHANGED <<fsvars, frvars, hmvars, size, total_files, seen_files, seen_dirs, scanning,
                   errors, lock, di, fut, ancs, plvars, brvars>>

\* lines 79-84
pre_count_sub ==
    /\ ~quit /\ pc = "pre_sub" /\ lock = "free"
    /\ LET dp == join(dirpath, dirnames[ci])
       IN  /\ exists' = exists \cup {dp}
           /\ is_dir' = Put(is_dir, dp, TRUE)
           /\ children' = Put(children, dirpath, Append(Get(children, dirpath, <<>>), dp))
    /\ IF ci < Len(dirnames)
          THEN pc' = "pre_sub" /\ ci' = ci + 1
          ELSE pc' = "pre_files" /\ ci' = 1
    /\ UNCHANGED <<fsvars, frvars, hmvars, size, total_files, seen_files, total_dirs, seen_dirs,
                   scanning, errors, lock, di, fut, ancs, plvars, brvars>>

\* (the pre-count stops after the first directory of the walk)
pre_count_files_once ==
    /\ ~quit /\ pc = "pre_files" /\ lock = "free"
    /\ total_files' = total_files + Len(pre_filenames)
    /\ pc' = "live_dir" /\ di' = 1
    /\ ci' = 1
    /\ UNCHANGED <<fsvars, frvars, hmvars, size, exists, children, is_dir, seen_files, total_dirs,
                   seen_dirs, scanning, errors, lock, fut, ancs, plvars, brvars>>

\* lines 85-86, then the next directory of the walk or the live pass
pre_count_files ==
    /\ ~quit /\ pc = "pre_files" /\ lock = "free"
    /\ total_files' = total_files + Len(pre_filenames)
    /\ IF di < Len(Walk)
          THEN pc' = "pre_dir" /\ di' = di + 1
          ELSE pc' = "live_dir" /\ di' = 1
    /\ ci' = 1
    /\ UNCHANGED <<fsvars, frvars, hmvars, size, exists, children, is_dir, seen_files, total_dirs,
                   seen_dirs, scanning, errors, lock, fut, ancs, plvars, brvars>>

(***************************************************************************)
(* scan_live, lines 88-131.                                                *)
(***************************************************************************)
\* where the live walk goes after the entries of Walk[di] are done
AfterDir(submitted) ==
    IF di < Len(Walk) THEN "live_dir"
    ELSE IF submitted = <<>> THEN "finish" ELSE "drain"

\* (line 110 left out: every listed directory is appended again)
RECURSIVE AddMissing_unchecked(_, _, _)
AddMissing_unchecked(kids, d, names) ==
    IF names = <<>> THEN kids
    ELSE AddMissing_unchecked(Append(kids, join(d, Head(names))), d, Tail(names))

RECURSIVE AddMissing(_, _, _)
AddMissing(kids, d, names) ==
    IF names = <<>> THEN kids
    ELSE LET dp == join(d, Head(names))
         IN  AddMissing(IF dp \in Range(kids) THEN kids ELSE Append(kids, dp),
                        d, Tail(names))

\* lines 103-111
scan_live_dir ==
    /\ ~quit /\ pc = "live_dir" /\ lock = "free"
    /\ seen_dirs' = seen_dirs + 1
    /\ exists' = exists \cup {dirpath}
    /\ is_dir' = Put(is_dir, dirpath, TRUE)
    /\ children' = Put(children, dirpath,
                       AddMissing(Get(children, dirpath, <<>>), dirpath, dirnames))
    /\ IF filenames # <<>>
          THEN pc' = "live_file" /\ di' = di
          ELSE /\ pc' = AfterDir(futs)
               /\ di' = IF di < Len(Walk) THEN di + 1 ELSE di
    /\ ci' = 1
    /\ UNCHANGED <<fsvars, frvars, hmvars, size, total_files, seen_files, total_dirs, scanning,
                   errors, lock, fut, ancs, plvars, brvars>>

\* lines 113-120: register the file and submit its sizing task
scan_live_file ==
    /\ ~quit /\ pc = "live_file" /\ lock = "free"
    /\ LET fpath == join(dirpath, filenames[ci])
       IN  /\ exists' = exists \cup {fpath}
           /\ is_dir' = Put(is_dir, fpath, FALSE)
           /\ children' = Put(children, dirpath, Append(Get(children, dirpath, <<>>), fpath))
           /\ futs' = Append(futs, fpath)
           /\ task' = Put(task, fpath, "queued")
    /\ IF ci < Len(filenames)
          THEN pc' = "live_file" /\ ci' = ci + 1 /\ di' = di
          ELSE /\ pc' = AfterDir(futs')
               /\ ci' = 1
               /\ di' = IF di < Len(Walk) THEN di + 1 ELSE di
    /\ UNCHANGED <<fsvars, frvars, hmvars, size, total_files, seen_files, total_dirs, seen_dirs,
                   scanning, errors, lock, fut, ancs, result, brvars>>

\* a pool thread takes the oldest queued task (ThreadPoolExecutor, line 101)
Queued == SelectSeq(futs, LAMBDA f : task[f] = "queued")

Running == {f \in DOMAIN task : task[f] = "running"}

worker_start ==
    /\ ~quit
    /\ Queued # <<>>
    /\ Cardinality(Running) < MaxWorkers
    /\ task' = Put(task, Head(Queued), "running")
    /\ UNCHANGED <<fsvars, frvars, hmvars, stvars, lock, scvars, futs, result, brvars>>

\* (no `except`: a failed read never delivers a result)
file_size_raises(path) ==
    /\ ~quit
    /\ task[path] = "running"
    /\ path \notin unreadable
    /\ result' = Put(result, path, tree.bytes[path])
    /\ task' = Put(task, path, "done")
    /\ UNCHANGED <<fsvars, frvars, hmvars, stvars, lock, scvars, futs, brvars>>

\* (the failure is not counted)
file_size_uncounted(path) ==
    /\ ~quit
    /\ task[path] = "running"
    /\ result' = Put(result, path, IF path \in unreadable THEN 0 ELSE tree.bytes[path])
    /\ task' = Put(task, path, "done")
    /\ UNCHANGED <<fsvars, frvars, hmvars, stvars, lock, scvars, futs, brvars>>

\* file_size, lines 92-98
file_size(path) ==
    /\ ~quit
    /\ task[path] = "running"
    /\ IF path \in unreadable
          THEN /\ lock = "free"
               /\ errors' = errors + 1
               /\ result' = Put(result, path, 0)
          ELSE /\ errors' = errors
               /\ result' = Put(result, path, tree.bytes[path])
    /\ task' = Put(task, path, "done")
    /\ UNCHANGED <<fsvars, frvars, hmvars, size, exists, children, is_dir, total_files, seen_files,
                   total_dirs, seen_dirs, scanning, lock, scvars, futs, brvars>>

\* (line 124 left out: the aggregated file is not counted as seen)
as_completed_uncounted(path) ==
    /\ ~quit /\ pc = "drain" /\ lock = "free"
    /\ task[path] = "done"
    /\ task' = Put(task, path, "yielded")
    /\ lock' = "scanner"
    /\ size' = Put(size, path, result[path])
    /\ fut' = <<path, result[path]>>
    /\ ancs' = ancestors(dirname(path), tree.root)
    /\ pc' = "bubble"
    /\ UNCHANGED <<fsvars, frvars, hmvars, exists, children, is_dir, total_files, seen_files,
                   total_dirs, seen_dirs, scanning, errors, di, ci, futs, result,
                   brvars>>

\* (the completed futures are drained inside the loop of the walk)
as_completed_eager(path) ==
    /\ ~quit /\ pc \in {"drain", "live_dir", "live_file"} /\ lock = "free"
    /\ task[path] = "done"
    /\ task' = Put(task, path, "yielded")
    /\ lock' = "scanner"
    /\ seen_files' = seen_files + 1
    /\ size' = Put(size, path, result[path])
    /\ fut' = <<path, result[path]>>
    /\ ancs' = ancestors(dirname(path), tree.root)
    /\ pc' = "bubble"
    /\ UNCHANGED <<fsvars, frvars, hmvars, exists, children, is_dir, total_files, total_dirs,
                   seen_dirs, scanning, errors, di, ci, futs, result, brvars>>

\* (line 127 left out: the file's own entry is not stored)
as_completed_no_own_size(path) ==
    /\ ~quit /\ pc = "drain" /\ lock = "free"
    /\ task[path] = "done"
    /\ task' = Put(task, path, "yielded")
    /\ lock' = "scanner"
    /\ seen_files' = seen_files + 1
    /\ fut' = <<path, result[path]>>
    /\ ancs' = ancestors(dirname(path), tree.root)
    /\ pc' = "bubble"
    /\ UNCHANGED <<fsvars, frvars, hmvars, size, exists, children, is_dir, total_files, total_dirs,
                   seen_dirs, scanning, errors, di, ci, futs, result, brvars>>

\* (lines 122-129 without `with st.lock`)
as_completed_unlocked(path) ==
    /\ ~quit /\ pc = "drain" /\ lock = "free"
    /\ task[path] = "done"
    /\ task' = Put(task, path, "yielded")
    /\ seen_files' = seen_files + 1
    /\ size' = Put(size, path, result[path])
    /\ fut' = <<path, result[path]>>
    /\ ancs' = ancestors(dirname(path), tree.root)
    /\ pc' = "bubble"
    /\ UNCHANGED <<fsvars, frvars, hmvars, exists, children, is_dir, total_files, total_dirs,
                   seen_dirs, scanning, errors, lock, di, ci, futs, result, brvars>>

\* lines 122-127: as_completed yields a finished future; the scanner takes
\* the lock, counts the file and stores its own size
as_completed(path) ==
    /\ ~quit /\ pc = "drain" /\ lock = "free"
    /\ task[path] = "done"
    /\ task' = Put(task, path, "yielded")
    /\ lock' = "scanner"
    /\ seen_files' = seen_files + 1
    /\ size' = Put(size, path, result[path])
    /\ fut' = <<path, result[path]>>
    /\ ancs' = ancestors(dirname(path), tree.root)
    /\ pc' = "bubble"
    /\ UNCHANGED <<fsvars, frvars, hmvars, exists, children, is_dir, total_files, total_dirs,
                   seen_dirs, scanning, errors, di, ci, futs, result, brvars>>

Yielded == {f \in DOMAIN task : task[f] = "yielded"}

\* (`=` for `+=`)
add_size_assign(tbl, anc, sz) == Put(tbl, anc, sz)

\* line 129: st.size[anc] += sz on a defaultdict(int)
add_size(tbl, anc, sz) == Put(tbl, anc, Get(tbl, anc, 0) + sz)

\* (the `with st.lock` block of line 123 is never left)
bubble_keeps_lock ==
    /\ ~quit /\ pc = "bubble" /\ lock = "scanner"
    /\ size' = add_size(size, Head(ancs), fut[2])
    /\ ancs' = Tail(ancs)
    /\ lock' = lock
    /\ pc' = IF Tail(ancs) # <<>> THEN pc
             ELSE IF Yielded = Range(futs) THEN "finish" ELSE "drain"
    /\ UNCHANGED <<fsvars, frvars, hmvars, exists, children, is_dir, total_files, seen_files,
                   total_dirs, seen_dirs, scanning, errors, di, ci, fut, plvars,
                   brvars>>

\* lines 128-129: one turn of the loop over the ancestors, the lock held;
\* the lock is released after the last one.  path and sz keep their last
\* values when the loop over the futures ends.
bubble ==
    /\ ~quit /\ pc = "bubble" /\ lock = "scanner"
    /\ size' = add_size(size, Head(ancs), fut[2])
    /\ ancs' = Tail(ancs)
    /\ IF Tail(ancs) = <<>>
          THEN /\ lock' = "free"
               /\ pc' = IF Yielded = Range(futs) THEN "finish" ELSE "drain"
          ELSE UNCHANGED <<lock, pc>>
    /\ UNCHANGED <<fsvars, frvars, hmvars, exists, children, is_dir, total_files, seen_files,
                   total_dirs, seen_dirs, scanning, errors, di, ci, fut, plvars,
                   brvars>>

\* (the progress counters are reset when the scan ends)
scan_finish_reset ==
    /\ ~quit /\ pc = "finish" /\ lock = "free"
    /\ scanning' = FALSE
    /\ seen_files' = 0
    /\ seen_dirs' = 0
    /\ pc' = "done"
    /\ UNCHANGED <<fsvars, frvars, hmvars, size, exists, children, is_dir, total_files,
                   total_dirs, errors, lock, di, ci, fut, ancs, plvars, brvars>>

\* (lines 130-131 before the loop of line 122: the flag is cleared while
\* futures are still to be drained)
scan_finish_early ==
    /\ ~quit /\ pc \in {"drain", "finish"} /\ lock = "free"
    /\ scanning
    /\ scanning' = FALSE
    /\ pc' = IF pc = "finish" THEN "done" ELSE pc
    /\ UNCHANGED <<fsvars, frvars, hmvars, size, exists, children, is_dir, total_files, seen_files,
                   total_dirs, seen_dirs, errors, lock, di, ci, fut, ancs, plvars,
                   brvars>>

\* lines 130-131
scan_finish ==
    /\ ~quit /\ pc = "finish" /\ lock = "free"
    /\ scanning' = FALSE
    /\ pc' = "done"
    /\ UNCHANGED <<fsvars, frvars, hmvars, size, exists, children, is_dir, total_files, seen_files,
                   total_dirs, seen_dirs, errors, lock, di, ci, fut, ancs, plvars,
                   brvars>>

Scanner ==
    \/ pre_count_dir
    \/ pre_count_sub
    \/ pre_count_files
    \/ scan_live_dir
    \/ scan_live_file
    \/ \E path \in DOMAIN task : as_completed(path)
    \/ bubble
    \/ scan_finish

Workers ==
    \/ worker_start
    \/ \E path \in DOMAIN task : file_size(path)

(***************************************************************************)
(* Browser, lines 137-298.                                                 *)
(***************************************************************************)
\* the code points of the names used in the trees
codes ==
    ("" :> <<>>) @@ ("data" :> <<100, 97, 116, 97>>) @@ ("A" :> <<65>>)
    @@ ("r" :> <<114>>) @@ ("a1" :> <<97, 49>>) @@ ("a2" :> <<97, 50>>)
    @@ ("a3" :> <<97, 51>>) @@ ("B" :> <<66>>) @@ ("a" :> <<97>>)
    @@ ("c" :> <<99>>) @@ ("x" :> <<120>>) @@ ("y" :> <<121>>) @@ ("z" :> <<122>>)

\* str.lower() on code points
lower(cs) == [i \in 1..Len(cs) |-> IF cs[i] \in 65..90 THEN cs[i] + 32 ELSE cs[i]]

\* str < str
RECURSIVE StrLess(_, _)
StrLess(a, b) ==
    IF b = <<>> THEN FALSE
    ELSE IF a = <<>> THEN TRUE
    ELSE IF Head(a) # Head(b) THEN Head(a) < Head(b)
    ELSE StrLess(Tail(a), Tail(b))

name_key(p) == lower(codes[basename(p)])

\* the snapshot _sorted_children takes under the lock, lines 160-167
kids_of(path) == SelectSeq(Get(children, path, <<>>), LAMBDA k : k \in exists)

sizes_of(path, k) ==
    Get(size, k, IF Get(is_dir, k, FALSE) THEN Get(size, path, 0) ELSE 0)

\* the sort keys of lines 169-174 compared as Python compares tuples:
\* (not is_dir, name) in mode 1, (not is_dir, -size, name) in modes 0 and 2
key_less(mode, path, a, b) ==
    LET da == Get(is_dir, a, FALSE)
        db == Get(is_dir, b, FALSE)
    IN  IF da # db THEN da
        ELSE IF mode # 1 /\ sizes_of(path, a) # sizes_of(path, b)
             THEN sizes_of(path, a) > sizes_of(path, b)
        ELSE StrLess(name_key(a), name_key(b))

\* list.sort is stable: x goes before the first element that is greater
RECURSIVE insert(_, _, _, _)
insert(mode, path, sorted, x) ==
    IF sorted = <<>> THEN <<x>>
    ELSE IF key_less(mode, path, x, Head(sorted)) THEN <<x>> \o sorted
    ELSE <<Head(sorted)>> \o insert(mode, path, Tail(sorted), x)

RECURSIVE sort(_, _, _, _)
sort(mode, path, done, rest) ==
    IF rest = <<>> THEN done
    ELSE sort(mode, path, insert(mode, path, done, Head(rest)), Tail(rest))

\* _sorted_children, lines 159-175
sorted_children(path) == sort(sort_mode, path, <<>>, kids_of(path))

Max(a, b) == IF a > b THEN a ELSE b

Min(a, b) == IF a < b THEN a ELSE b

\* the progress snapshot of draw, lines 186-188: pct is
\* 100 * min(1, seen / max(1, tot)), kept here as the fraction pct_num / pct_den
seen == seen_files + seen_dirs

tot == total_files + total_dirs

pct_den == Max(1, tot)

pct_num == Min(seen, pct_den)

\* draw, lines 177-258: a frame reads the State and, of the Browser's fields
\* that decide its behaviour, writes only pos (lines 227-228)
draw ==
    /\ ~quit /\ dpc = "idle" /\ lock = "free"
    /\ LET kids == sorted_children(cwd)
       IN  pos' = IF kids # <<>> THEN Max(0, Min(pos, Len(kids) - 1)) ELSE pos
    /\ UNCHANGED <<fsvars, frvars, hmvars, stvars, lock, scvars, plvars, cwd, sort_mode, quit>>

\* lines 276-277
key_quit ==
    /\ ~quit /\ dpc \in {"idle", "shown"}
    /\ dpc' = "idle"
    /\ quit' = TRUE
    /\ UNCHANGED <<fsvars, scrvars, hmvars, stvars, lock, scvars, plvars, cwd, pos, sort_mode>>

\* lines 278-279
key_up ==
    /\ ~quit /\ dpc \in {"idle", "shown"}
    /\ dpc' = "idle"
    /\ pos' = Max(0, pos - 1)
    /\ UNCHANGED <<fsvars, scrvars, hmvars, stvars, lock, scvars, plvars, cwd, sort_mode, quit>>

\* lines 280-281
key_down ==
    /\ ~quit /\ dpc \in {"idle", "shown"}
    /\ dpc' = "idle"
    /\ pos < MaxPos
    /\ pos' = pos + 1
    /\ UNCHANGED <<fsvars, scrvars, hmvars, stvars, lock, scvars, plvars, cwd, sort_mode, quit>>

\* lines 282-291
key_right ==
    /\ ~quit /\ dpc \in {"idle", "shown"} /\ lock = "free"
    /\ dpc' = "idle"
    /\ LET kids == sorted_children(cwd)
           p    == Max(0, Min(pos, Len(kids) - 1))
       IN  IF kids = <<>> THEN UNCHANGED <<cwd, pos>>
           ELSE IF Get(is_dir, kids[p + 1], FALSE)
                THEN cwd' = kids[p + 1] /\ pos' = 0
                ELSE cwd' = cwd /\ pos' = p
    /\ UNCHANGED <<fsvars, scrvars, hmvars, stvars, lock, scvars, plvars, sort_mode, quit>>

\* (line 294 left out: the parent is entered whether registered or not)
key_left_unchecked ==
    /\ ~quit /\ dpc \in {"idle", "shown"}
    /\ dpc' = "idle"
    /\ cwd' = dirname(cwd) /\ pos' = 0
    /\ UNCHANGED <<fsvars, scrvars, hmvars, stvars, lock, scvars, plvars, sort_mode, quit>>

\* lines 292-296: exists is read without the lock
key_left ==
    /\ ~quit /\ dpc \in {"idle", "shown"}
    /\ dpc' = "idle"
    /\ LET parent == dirname(cwd)
       IN  IF parent \in exists
           THEN cwd' = parent /\ pos' = 0
           ELSE UNCHANGED <<cwd, pos>>
    /\ UNCHANGED <<fsvars, scrvars, hmvars, stvars, lock, scvars, plvars, sort_mode, quit>>

\* lines 297-298
key_sort ==
    /\ ~quit /\ dpc \in {"idle", "shown"}
    /\ dpc' = "idle"
    /\ sort_mode' = (sort_mode + 1) % 3
    /\ UNCHANGED <<fsvars, scrvars, hmvars, stvars, lock, scvars, plvars, cwd, pos, quit>>

Keys ==
    \/ key_quit
    \/ key_up
    \/ key_down
    \/ key_right
    \/ key_left
    \/ key_sort

Browser == draw \/ Keys

(***************************************************************************)
(* draw again, lines 177-258, one action per `with st.lock` block, for the *)
(* properties that look inside a frame.  The Browser thread handles no key *)
(* while it draws; rows is what the frame has put on the screen.           *)
(***************************************************************************)
\* line 226, the list starting at row 5
max_rows == ScreenLines - 5 - 1

\* one past the last index drawn, line 234
last_idx(kids, t) == Min(Len(kids), t + max_rows)

\* lines 180-193: the screen is erased and the header values are read
draw_header ==
    /\ ~quit /\ dpc \in {"idle", "shown"} /\ lock = "free"
    /\ rows' = <<>>
    /\ dpc' = "sorted"
    /\ UNCHANGED <<fsvars, stvars, lock, scvars, plvars, brvars, hmvars,
                   draw_kids, shot, parent_total, top>>

\* line 219: kids = self._sorted_children(self.cwd); shot is the size table
\* of that moment for the children
draw_sorted ==
    /\ ~quit /\ dpc = "sorted" /\ lock = "free"
    /\ draw_kids' = sorted_children(cwd)
    /\ shot' = [k \in Range(sorted_children(cwd)) |-> Get(size, k, 0)]
    /\ dpc' = "parent"
    /\ UNCHANGED <<fsvars, stvars, lock, scvars, plvars, brvars, hmvars,
                   parent_total, top, rows>>

\* (lines 231-232 left out: the list is always drawn from its first entry)
draw_parent_no_scroll ==
    /\ ~quit /\ dpc = "parent" /\ lock = "free"
    /\ parent_total' = Get(size, cwd, 0)
    /\ pos' = IF draw_kids # <<>> THEN Max(0, Min(pos, Len(draw_kids) - 1)) ELSE pos
    /\ top' = 0
    /\ dpc' = IF draw_kids # <<>> THEN "row" ELSE "footer"
    /\ UNCHANGED <<fsvars, stvars, lock, scvars, plvars, cwd, sort_mode, quit,
                   hmvars, draw_kids, shot, rows>>

\* lines 222-232
draw_parent ==
    /\ ~quit /\ dpc = "parent" /\ lock = "free"
    /\ parent_total' = Get(size, cwd, 0)
    /\ pos' = IF draw_kids # <<>> THEN Max(0, Min(pos, Len(draw_kids) - 1)) ELSE pos
    /\ top' = IF pos' >= max_rows THEN pos' - max_rows + 1 ELSE 0
    /\ dpc' = IF top' < last_idx(draw_kids, top') THEN "row" ELSE "footer"
    /\ UNCHANGED <<fsvars, stvars, lock, scvars, plvars, cwd, sort_mode, quit,
                   hmvars, draw_kids, shot, rows>>

\* lines 234-249: the row of index idx
draw_row ==
    /\ ~quit /\ dpc = "row" /\ lock = "free"
    /\ LET idx == top + Len(rows)
           p   == draw_kids[idx + 1]
       IN  /\ rows' = Append(rows, [p |-> p, sz |-> Get(size, p, 0), hl |-> idx = pos])
           /\ dpc' = IF idx + 1 < last_idx(draw_kids, top) THEN "row" ELSE "footer"
    /\ UNCHANGED <<fsvars, stvars, lock, scvars, plvars, brvars, hmvars,
                   draw_kids, shot, parent_total, top>>

\* lines 251-258: the frame is on the screen and the locals are gone; the
\* frame stays "shown" until the next key is handled
draw_refresh ==
    /\ ~quit /\ dpc = "footer"
    /\ dpc' = "shown"
    /\ draw_kids' = <<>>
    /\ shot' = <<>>
    /\ parent_total' = 0
    /\ top' = 0
    /\ UNCHANGED <<fsvars, stvars, lock, scvars, plvars, brvars, hmvars, rows>>

Frame ==
    \/ draw_header
    \/ draw_sorted
    \/ draw_parent
    \/ draw_row
    \/ draw_refresh

Next == Scanner \/ Workers \/ Browser

\* the same program with the frame drawn step by step
NextFrame == Scanner \/ Workers \/ Frame \/ Keys

Spec == Init /\ [][Next]_vars

SpecChanging == InitChanging /\ [][Next]_vars

\* a scan of a tree whose files are all readable, frames in steps
InitFrame ==
    /\ tree \in {PairTree, FlipTree} /\ Start /\ late = {} /\ NoCall
    /\ unreadable = {} /\ nolist = {}

SpecFrame == InitFrame /\ [][NextFrame]_vars

\* calls of human on the byte counts of Inputs
InitHuman ==
    /\ tree = PairTree /\ Start /\ late = {}
    /\ unreadable = {} /\ nolist = {}
    /\ arg \in Inputs /\ unit = 0 /\ ret = <<>>

SpecHuman == InitHuman /\ [][human]_vars

\* the scanner thread and the pool threads are scheduled by the system:
\* each keeps running while it has a step to take
SpecFair == InitPair /\ [][Next]_vars /\ WF_vars(Scanner) /\ WF_vars(Workers)

(***************************************************************************)
(* Vocabulary of the properties.                                           *)
(***************************************************************************)
Done == scanning = FALSE

\* f lies transitively under directory d
Under(d, f) == Len(f) > Len(d) /\ SubSeq(f, 1, Len(d)) = d

\* the files the live walk reaches: those of the directories it lists
Reached == {f \in FilesOf(tree) : dirname(f) \in Range(Walk)}

\* what the size read of f yields: 0 when it fails
Measured == [f \in FilesOf(tree) |-> IF f \in unreadable THEN 0 ELSE tree.bytes[f]]

RECURSIVE SumOver(_, _)
SumOver(S, g) ==
    IF S = {} THEN 0
    ELSE LET x == CHOOSE y \in S : TRUE IN g[x] + SumOver(S \ {x}, g)

RECURSIVE SumSeq(_, _)
SumSeq(s, g) == IF s = <<>> THEN 0 ELSE g[Head(s)] + SumSeq(Tail(s), g)

SizeOf(p) == Get(size, p, 0)

\* the size table read with 0 for a path that has no entry
Sizes == [p \in DirsOf(tree) \cup FilesOf(tree) |-> SizeOf(p)]

(***************************************************************************)
(* C1: when the scan is Done on a tree that did not change, size[d] is,    *)
(* for every directory d (the root included), the sum of the measured      *)
(* sizes of the files under d, a failed read counting 0; the tree          *)
(* root{r=400, A{a1=100, a2=200, a3=300}} ends with size[root] = 1000 and  *)
(* size[A] = 600.                                                          *)
(***************************************************************************)
C1_TotalsAtDone ==
    (Done /\ late = {}) =>
        /\ \A d \in DirsOf(tree) :
               SizeOf(d) = SumOver({f \in Reached : Under(d, f)}, Measured)
        /\ (tree = SpecTree /\ unreadable = {} /\ nolist = {}) =>
               /\ SizeOf(<<"data">>) = 1000
               /\ SizeOf(<<"data", "A">>) = 600

C1_Witness ==
    /\ Done /\ late = {}
    /\ tree = SpecTree /\ unreadable = {} /\ nolist = {}
    /\ SizeOf(<<"data">>) = 1000

(***************************************************************************)
(* C2: the bubble of one file is atomic for readers: whenever the lock is  *)
(* free (a reader can take it), every file has been applied to its own     *)
(* entry and to all its ancestors up to the root, or to none of them, so   *)
(* size[d] is the sum of size[f] over the aggregated files f under d.      *)
(***************************************************************************)
C2_BubbleAtomic ==
    lock = "free" =>
        /\ \A f \in FilesOf(tree) : f \in DOMAIN size <=> f \in Yielded
        /\ \A d \in DirsOf(tree) :
               SizeOf(d) = SumOver({f \in Yielded : Under(d, f)}, Sizes)

\* a reader can take the lock between two bubbles, some files aggregated
C2_Witness ==
    /\ lock = "free" /\ pc = "drain"
    /\ \E f \in Yielded : SizeOf(f) > 0 /\ Len(f) >= 3
    /\ Yielded # Range(futs)

(***************************************************************************)
(* C3: the final size table does not depend on the order in which the      *)
(* sizing tasks complete: at Done it is the table obtained by aggregating  *)
(* the files one after the other in submission order.                      *)
(***************************************************************************)
RECURSIVE BubbleAll(_, _, _)
BubbleAll(tbl, chain, sz) ==
    IF chain = <<>> THEN tbl
    ELSE BubbleAll(add_size(tbl, Head(chain), sz), Tail(chain), sz)

RECURSIVE InOrder(_, _)
InOrder(tbl, seq) ==
    IF seq = <<>> THEN tbl
    ELSE InOrder(BubbleAll(Put(tbl, Head(seq), result[Head(seq)]),
                           ancestors(dirname(Head(seq)), tree.root),
                           result[Head(seq)]),
                 Tail(seq))

C3_OrderIndependent == Done => size = InOrder(<<>>, futs)

\* Done, the file submitted first having been aggregated last
C3_Witness ==
    /\ Done
    /\ Len(futs) >= 3
    /\ fut # <<>> /\ fut[1] = futs[1]

(***************************************************************************)
(* C4: under fair scheduling of the scanner thread and the pool, whatever  *)
(* files or directories cannot be read and whatever keys the Browser       *)
(* handles, the scan reaches Done unless the process exits first.          *)
(***************************************************************************)
C4_ScanTerminates == <>(Done \/ quit)

\* Done with an unreadable file, an unlistable directory and keys handled
C4_Witness ==
    /\ Done /\ ~quit
    /\ unreadable # {} /\ nolist # {} /\ errors > 0
    /\ sort_mode # 0 /\ pos # 0

(***************************************************************************)
(* C5: a failed size read reports 0 and adds exactly 1 to the error        *)
(* counter without stopping the scan: with k unreadable files and every    *)
(* directory listable, at Done errors = k, each unreadable file has size 0 *)
(* and every directory's size is the sum over the readable files under it. *)
(***************************************************************************)
C5_FailedReadsCounted ==
    (Done /\ nolist = {}) =>
        /\ errors = Cardinality(unreadable)
        /\ \A f \in unreadable : f \in DOMAIN size /\ size[f] = 0
        /\ \A d \in DirsOf(tree) :
               SizeOf(d) = SumOver({f \in FilesOf(tree) \ unreadable : Under(d, f)},
                                   tree.bytes)

C5_Witness ==
    /\ Done /\ nolist = {}
    /\ Cardinality(unreadable) = 1 /\ errors = 1
    /\ \A f \in unreadable : tree.bytes[f] > 0 /\ Len(f) >= 3

(***************************************************************************)
(* C6: a directory that cannot be listed, in the pre-count pass or in the  *)
(* live pass, is counted as an error, so that at Done the error counter    *)
(* is greater than 0 if any directory was unlistable.                      *)
(***************************************************************************)
C6_TraversalErrorCounted == (Done /\ nolist # {}) => errors > 0

(***************************************************************************)
(* C7: the progress percentage min(100, seen / max(1, total) * 100) never  *)
(* decreases from one snapshot to a later one, and it is 100 only in a     *)
(* snapshot in which the scan is Done.                                     *)
(***************************************************************************)
PctAt100 == pct_num = pct_den

PctNotLowered == pct_num * pct_den' <= pct_num' * pct_den

C8_CountersMonotone ==
    [][/\ total_files' >= total_files
       /\ seen_files' >= seen_files
       /\ total_dirs' >= total_dirs
       /\ seen_dirs' >= seen_dirs
       /\ errors' >= errors]_vars

\* every counter has moved, the scan is over and the Browser has handled keys
C8_Witness ==
    /\ total_files > 1 /\ seen_files > 0 /\ total_dirs > 1 /\ seen_dirs > 0
    /\ errors > 0
    /\ Done /\ sort_mode # 0

(***************************************************************************)
(* C9: once the scan is Done, the size of every directory is the sum of    *)
(* the sizes of the immediate children listed for it, a child without a    *)
(* recorded size counting 0.                                               *)
(***************************************************************************)
C9_SizeIsSumOfChildren ==
    Done => \A d \in DirsOf(tree) :
                SizeOf(d) = SumSeq(Get(children, d, <<>>), Sizes)

\* Done, a directory holding a sized subdirectory and a sized file
C9_Witness ==
    /\ Done
    /\ \E d \in DOMAIN children :
           /\ \E c \in Range(children[d]) : is_dir[c] /\ SizeOf(c) > 0
           /\ \E c \in Range(children[d]) : ~is_dir[c] /\ SizeOf(c) > 0

(***************************************************************************)
(* C10: children[d] never lists a path twice, the directories registered   *)
(* by the pre-count pass being met again by the live pass, which also      *)
(* registers the files.                                                    *)
(***************************************************************************)
C10_NoDuplicateChildren ==
    \A d \in DOMAIN children :
        \A i, j \in 1..Len(children[d]) : i # j => children[d][i] # children[d][j]

\* the live pass has gone through a directory whose subdirectories the
\* pre-count pass had registered, and has added its files
C10_Witness ==
    \E d \in DOMAIN children :
        /\ pc \in {"drain", "finish", "done"}
        /\ \E c \in Range(children[d]) : is_dir[c]
        /\ \E c \in Range(children[d]) : ~is_dir[c]

(***************************************************************************)
(* C11: after the Browser handles an up or a down key the selection index  *)
(* is within 0 .. childCount-1, childCount being the number of visible     *)
(* children of cwd, and with no visible child the key leaves pos unchanged.*)
(***************************************************************************)
C11_SelectionClamped ==
    [][(key_up \/ key_down) =>
          IF kids_of(cwd) = <<>> THEN pos' = pos
          ELSE 0 <= pos' /\ pos' <= Len(kids_of(cwd)) - 1]_vars

(***************************************************************************)
(* C12: the descend key, when the selected child of cwd is a file or cwd   *)
(* has no children, changes neither cwd nor pos.                           *)
(***************************************************************************)
C12_DescendOnFileIsNoOp ==
    [][(/\ key_right
        /\ LET kids == sorted_children(cwd)
           IN  \/ kids = <<>>
               \/ ~Get(is_dir, kids[Max(0, Min(pos, Len(kids) - 1)) + 1], FALSE))
       => (cwd' = cwd /\ pos' = pos)]_vars

(***************************************************************************)
(* C13: the ascend key handled while cwd is the scan root changes neither  *)
(* cwd nor pos, whatever the scan root, "/" included.                      *)
(***************************************************************************)
C13_AscendAtRootIsNoOp ==
    [][(key_left /\ cwd = tree.root) => (cwd' = cwd /\ pos' = pos)]_vars

(***************************************************************************)
(* C14: in the sort modes SizeDescending and TypeThenSize the child list   *)
(* of cwd has every directory before every file and, among the             *)
(* directories and among the files, the entries in non-increasing order of *)
(* their recorded size (0 without one), equal sizes by case-insensitive    *)
(* name.                                                                   *)
(***************************************************************************)
C14_SortedBySizeDesc ==
    (lock = "free" /\ sort_mode \in {0, 2}) =>
        LET L == sorted_children(cwd)
        IN  \A i \in 1..(Len(L) - 1) :
                LET a == L[i]
                    b == L[i + 1]
                IN  /\ Get(is_dir, a, FALSE) \/ ~Get(is_dir, b, FALSE)
                    /\ Get(is_dir, a, FALSE) = Get(is_dir, b, FALSE) =>
                           /\ SizeOf(a) >= SizeOf(b)
                           /\ SizeOf(a) = SizeOf(b) =>
                                  ~StrLess(name_key(b), name_key(a))

WalkOver == seen_dirs = Len(Walk) /\ Range(futs) = Reached

FileEntries ==
    {e \in UNION {{<<d, i>> : i \in 1..Len(children[d])} : d \in DOMAIN children} :
        ~Get(is_dir, children[e[1]][e[2]], TRUE)}

(***************************************************************************)
(* C17: every file the live pass registers is aggregated exactly once:     *)
(* seen_files always counts the futures drained so far, each one once, and *)
(* at Done every file entry of the children lists has been drained, has    *)
(* its size recorded, and seen_files is the number of those entries.       *)
(***************************************************************************)
C17_EachFileAggregatedOnce ==
    /\ seen_files = Cardinality(Yielded)
    /\ Done =>
          /\ seen_files = Cardinality(FileEntries)
          /\ \A e \in FileEntries :
                 LET f == children[e[1]][e[2]]
                 IN  f \in Yielded /\ f \in DOMAIN size

\* the scan is over and has aggregated several files of several directories
C17_Witness ==
    /\ Done
    /\ seen_files >= 3
    /\ \E e1, e2 \in FileEntries : e1[1] # e2[1]

\* the directories the pre-count walk comes across: the root and every
\* name in the listing of a directory it lists
Listed ==
    Range(Walk) \cup
    UNION {{join(d, tree.dirs[d][i]) : i \in 1..Len(tree.dirs[d])} : d \in Range(Walk)}

\* the first sign of the live pass: a directory seen, a file registered,
\* a task submitted or a file aggregated
SizingStarted ==
    \/ seen_dirs > 0
    \/ seen_files > 0
    \/ futs # <<>>
    \/ \E p \in DOMAIN is_dir : ~is_dir[p]

(***************************************************************************)
(* C18: the pre-count pass is complete before any sizing work starts: as   *)
(* soon as a file is registered, a task submitted or seen_dirs or          *)
(* seen_files is non-zero, every directory the walk comes across is in     *)
(* exists, marked a directory and listed in the children of its parent,    *)
(* and total_dirs and total_files have their final values.                 *)
(***************************************************************************)
C18_PreCountBeforeSizing ==
    SizingStarted =>
        /\ \A d \in Listed :
              /\ d \in exists
              /\ Get(is_dir, d, FALSE)
              /\ d # tree.root => d \in Range(Get(children, dirname(d), <<>>))
        /\ total_dirs = 1 + Len(Walk)
        /\ total_files = 1 + SumSeq(Walk, [d \in DirsOf(tree) |-> Len(tree.files[d])])

\* the live pass has just seen its first directory of a tree with a
\* subdirectory and no file has been registered yet
C18_Witness ==
    /\ seen_dirs = 1 /\ futs = <<>>
    /\ Len(Walk) >= 2
    /\ total_files > 1

(***************************************************************************)
(* C19: Done is terminal: once scanning is false it is never true again,   *)
(* and no step of the scanner, of a worker or of the Browser changes size, *)
(* children, exists, is_dir, the four counters or errors afterwards.       *)
(***************************************************************************)
C19_DoneIsTerminal == [][Done => UNCHANGED stvars]_vars

\* the Browser has moved into a subdirectory after the end of a scan that
\* counted a failed read
C19_Witness ==
    /\ Done /\ pc = "done"
    /\ errors > 0
    /\ cwd # tree.root /\ pos > 0

\* the exponent k of the claim: 1024^k <= arg < 1024^(k+1), 0 below 1024,
\* capped at the number of units before E
Scale == Min(Len(arg) - 1, Len(units))

Suffixes == units \o <<"E">>

\* arg / 1024^Scale cut after one decimal digit
Floor1 == <<IntFrom(arg, Scale + 1), Mul10(SubSeq(arg, 1, Scale), 0)[2]>>

\* the printed number is arg / 1024^Scale to within one tenth
OneDecimal ==
    /\ ret[2] \in 0..9
    /\ \/ <<ret[1], ret[2]>> = Floor1
       \/ Floor1[2] < 9 /\ <<ret[1], ret[2]>> = <<Floor1[1], Floor1[2] + 1>>
       \/ Floor1[2] = 9 /\ <<ret[1], ret[2]>> = <<Floor1[1] + 1, 0>>

\* 0 -> "0.0B", 1024 -> "1.0K", 1536 -> "1.5K", 1048576 -> "1.0M"
Examples ==
    /\ arg = <<0>> => ret = <<0, 0, "B">>
    /\ arg = <<0, 1>> => ret = <<1, 0, "K">>
    /\ arg = <<Base \div 2, 1>> => ret = <<1, 5, "K">>
    /\ arg = <<0, 0, 1>> => ret = <<1, 0, "M">>

(***************************************************************************)
(* C16: for a byte count n with 1024^k <= n < 1024^(k+1) (k = 0 below      *)
(* 1024, k at most 6) human returns n / 1024^k with one decimal digit and  *)
(* the k-th suffix of B, K, M, G, T, P, E, and the printed number is below *)
(* 1024 whenever k < 6; 0, 1024, 1536 and 1048576 give "0.0B", "1.0K",     *)
(* "1.5K" and "1.0M".                                                      *)
(***************************************************************************)
C16_PrintedBelow1024 ==
    ret # <<>> =>
        /\ ret[3] = Suffixes[Scale + 1]
        /\ OneDecimal
        /\ Scale < Len(units) => ret[1] < Base
        /\ Examples

\* C16 as amended: the same, except that it is the number before rounding
\* that is below 1024 whenever k < 6; the printed one is that number rounded
\* to one decimal digit and is 1024.0 when the rounding carries from 1023.9.
C16_RoundedToOneDecimal ==
    ret # <<>> =>
        /\ ret[3] = Suffixes[Scale + 1]
        /\ OneDecimal
        /\ Scale < Len(units) =>
               /\ Floor1[1] < Base
               /\ \/ ret[1] < Base
                  \/ <<ret[1], ret[2]>> = <<Base, 0>> /\ Floor1 = <<Base - 1, 9>>
        /\ Examples

\* 1048575 is printed as "1024.0K"
C16_Witness == arg = <<Base - 1, Base - 1>> /\ ret = <<Base, 0, "K">>

(***************************************************************************)
(* C20: one sort-and-render cycle uses a single view of the children of    *)
(* cwd: the size every row of a frame displays is the value size[] had in  *)
(* the state whose sizes ordered the rows, also when aggregation steps     *)
(* interleave with the frame.                                              *)
(***************************************************************************)
C20_OneViewPerFrame ==
    dpc \in {"row", "footer"} =>
        \A i \in 1..Len(rows) : rows[i].sz = shot[rows[i].p]

(***************************************************************************)
(* C21: every access to the shared table and progress record is made by a  *)
(* thread that holds the lock: a step that changes the State starts with   *)
(* the lock free (and takes it) or is the scanner's bubble under the lock  *)
(* it holds, and a step of the Browser that reads the State (a frame, the  *)
(* descend key, the ascend key) starts with the lock free.                 *)
(***************************************************************************)
C21_AccessUnderLock ==
    [][/\ stvars' # stvars => (lock = "free" \/ (lock = "scanner" /\ pc = "bubble"))
       /\ (draw \/ key_right \/ key_left) => lock = "free"]_vars

(***************************************************************************)
(* C23: for a file at depth k >= 1 below the scan root the ancestor        *)
(* computation returns exactly k paths: the parent of the file first, each *)
(* next one the parent of the one before, the scan root last, all in the   *)
(* subtree of the root and no path twice.                                  *)
(***************************************************************************)
C23_AncestorChain ==
    [][\A path \in DOMAIN task :
          as_completed(path) =>
              LET a == ancs'
                  k == Len(path) - Len(tree.root)
              IN  /\ k >= 1
                  /\ Len(a) = k
                  /\ a[1] = dirname(path)
                  /\ \A i \in 1..(k - 1) : a[i + 1] = dirname(a[i])
                  /\ a[k] = tree.root
                  /\ \A i \in 1..k : a[i] = tree.root \/ Under(tree.root, a[i])
                  /\ \A i, j \in 1..k : i # j => a[i] # a[j]]_vars

\* the chain of a file three levels below the root / has just been computed
C23_Witness ==
    /\ pc = "bubble" /\ tree.root = <<>>
    /\ Len(fut[1]) = 3 /\ Len(ancs) = 3

(***************************************************************************)
(* C25: in every reachable state cwd is the scan root or a registered      *)
(* directory (in exists, marked a directory) below the scan root.          *)
(***************************************************************************)
C25_CwdIsRootOrDirectory ==
    \/ cwd = tree.root
    \/ /\ cwd \in exists
       /\ Get(is_dir, cwd, FALSE)
       /\ Under(tree.root, cwd)

\* the Browser is two levels below the root
C25_Witness == cwd \in exists /\ Len(cwd) = Len(tree.root) + 2

(***************************************************************************)
(* C26: when the scan is Done on a tree that did not change, seen_files    *)
(* equals total_files and seen_dirs equals total_dirs.                     *)
(***************************************************************************)
C26_SeenEqualsTotalAtDone ==
    Done => (seen_files = total_files /\ seen_dirs = total_dirs)

(***************************************************************************)
(* C28: no thread holds the lock while it waits: as long as the Browser    *)
(* has not quit, the thread that holds the lock can take its next step,    *)
(* and until the scan is Done the scanner or a worker can take a step.     *)
(***************************************************************************)
C28_DeadlockFree ==
    ~quit =>
        /\ lock # "free" => ENABLED bubble
        /\ ~Done => ENABLED (Scanner \/ Workers)

\* a worker whose read has failed waits for the lock the scanner holds
C28_Witness ==
    /\ ~quit /\ lock = "scanner"
    /\ \E f \in unreadable : f \in DOMAIN task /\ task[f] = "running"

(***************************************************************************)
(* C22: in every frame in which cwd has a visible child and the list has   *)
(* at least one row, the selected row is among the rows drawn: top <= pos  *)
(* < top + max_rows and pos < childCount, and the frame, once complete,    *)
(* has the row of index pos highlighted.                                   *)
(***************************************************************************)
C22_SelectedRowVisible ==
    (dpc \in {"row", "footer"} /\ draw_kids # <<>> /\ max_rows >= 1) =>
        /\ top <= pos /\ pos < top + max_rows
        /\ pos < Len(draw_kids)
        /\ dpc = "footer" =>
               \E i \in 1..Len(rows) : rows[i].hl /\ rows[i].p = draw_kids[pos + 1]

\* a complete frame of a list longer than the screen, scrolled to its end
C22_Witness ==
    /\ dpc = "footer"
    /\ Len(draw_kids) > max_rows
    /\ top > 0 /\ pos = Len(draw_kids) - 1

(***************************************************************************)
(* C24: in every frame no row shows a share above 100%: whenever the       *)
(* denominator the frame uses, its value of size[cwd], is not zero, the    *)
(* size displayed for each child is at most that denominator and the       *)
(* displayed sizes of the frame sum to at most it.                         *)
(***************************************************************************)
C24_NoShareAbove100 ==
    (dpc \in {"row", "footer"} /\ parent_total > 0) =>
        /\ \A i \in 1..Len(rows) : rows[i].sz <= parent_total
        /\ SumSeq(rows, [r \in Range(rows) |-> r.sz]) <= parent_total

(***************************************************************************)
(* C27: the descend key acts on the row the user sees highlighted: if the  *)
(* frame on the screen highlights directory D and no key has been handled  *)
(* since that frame, the descend key sets cwd to D, whatever the scanner   *)
(* has aggregated in between.                                              *)
(***************************************************************************)
C27_DescendEntersHighlighted ==
    [][(key_right /\ dpc = "shown") =>
          \A i \in 1..Len(rows) :
              (rows[i].hl /\ Get(is_dir, rows[i].p, FALSE)) => cwd' = rows[i].p]_vars

====
